---- MODULE Spec2Model ----
(***************************************************************************)
(* Model of the conan client command layer (conans/client/command.py) and  *)
(* of the local cache / remote synchronisation it drives, for the recipe   *)
(* Hello/0.1@lasote/testing of the integration test                        *)
(* conans/test/integration/export_sources_test.py.                         *)
(*                                                                         *)
(* Strings that the code inspects character by character (the values of    *)
(* --build, the textual recipe reference) are sequences of one-character   *)
(* strings; file names and remote names, which the code only compares for  *)
(* equality, are TLA+ strings.                                             *)
(***************************************************************************)
EXTENDS Integers, Sequences, FiniteSets, TLC

\* ------------------------------------------------------------------ bounds
\* Largest value of the wall clock that stamps a manifest.
MaxTime == 2
\* Number of distinct contents the user's hello.h can have.
NumContents == 2
\* Largest number of values the --build option can collect.
MaxBuildArgs == 3
\* Number of commands run on one client.
MaxCommands == 6

\* ------------------------------------------------------- python-like values
None == "None"

\* The values of the --build option the model draws from.
s_never == <<"n", "e", "v", "e", "r">>
s_missing == <<"m", "i", "s", "s", "i", "n", "g">>
s_outdated == <<"o", "u", "t", "d", "a", "t", "e", "d">>
s_Hello == <<"H", "e", "l", "l", "o">>
s_Bye == <<"B", "y", "e">>
s_star == <<"*">>

BuildItems == {s_never, s_missing, s_outdated, s_Hello, s_Bye}

\* str(ConanFileReference) of the reference of the test:
\* "Hello/0.1@lasote/testing"
reference_str ==
  <<"H", "e", "l", "l", "o", "/", "0", ".", "1", "@",
    "l", "a", "s", "o", "t", "e", "/",
    "t", "e", "s", "t", "i", "n", "g">>

\* Lists of at most n build items.
RECURSIVE ListsUpTo(_)
ListsUpTo(n) ==
  IF n = 0 THEN {<<>>}
  ELSE LET shorter == ListsUpTo(n - 1)
       IN shorter \cup {Append(l, i) : l \in {s \in shorter : Len(s) = n - 1},
                                        i \in BuildItems}

\* A python value that is None, a bool, a str or a list; the record keeps
\* the python type.  --build is None or a list in the parsed arguments, and
\* _get_build_sources_parameter returns False, True, "outdated" or a list.
PyNone == [type |-> "NoneType", bool |-> FALSE, str |-> "", list |-> <<>>]
PyBool(b) == [type |-> "bool", bool |-> b, str |-> "", list |-> <<>>]
PyStr(s) == [type |-> "str", bool |-> FALSE, str |-> s, list |-> <<>>]
PyList(l) == [type |-> "list", bool |-> FALSE, str |-> "", list |-> l]

\* What argparse hands over for --build: None when the option is absent,
\* otherwise the list of collected values.
BuildParams == {PyNone} \cup {PyList(l) : l \in ListsUpTo(MaxBuildArgs)}

\* The occurrences of --build on an install command line: none, one with no
\* value or one value, or two.
BuildOccurrences ==
  {<<>>} \cup {<<v>> : v \in ListsUpTo(1)}
         \cup {<< <<s_missing>>, <<s_Bye>> >>, << <<s_Bye>>, <<s_Hello>> >>,
               << <<>>, <<s_never>> >>}

\* The install command lines: any --build alone, --update with no --build or
\* with --build=missing, and -r alone.
InstallArgs ==
  {[build |-> b, update |-> FALSE, remote |-> None] : b \in BuildOccurrences}
  \cup {[build |-> b, update |-> TRUE, remote |-> None] :
          b \in {<<>>, << <<s_missing>> >>}}
  \cup {[build |-> <<>>, update |-> FALSE, remote |-> r] :
          r \in {"default", "other"}}

\* The install command lines of the test: no --build, --build=missing or
\* --build, and with no --build: --update, or --manifests or --verify given
\* without a folder (absent: None), or both.
DEFAULT_MANIFEST_FOLDER == ".conan_manifests"

ManifestInstallArgs ==
  {[build |-> b, update |-> FALSE, manifests |-> None, verify |-> None] :
     b \in {<<>>, << <<s_missing>> >>, << <<>> >>}}
  \cup {[build |-> <<>>, update |-> TRUE, manifests |-> None, verify |-> None]}
  \cup {[build |-> <<>>, update |-> FALSE, manifests |-> m, verify |-> v] :
          m \in {None, DEFAULT_MANIFEST_FOLDER},
          v \in {None, DEFAULT_MANIFEST_FOLDER}}

\* Extender.__call__: the destination is created as an empty list when it is
\* not a list yet (or equals the default, None), then extended by the values.
Extender(dest, values) ==
  LET base == IF dest.type # "list" \/ dest = PyNone THEN <<>> ELSE dest.list
  IN PyList(base \o values)

\* argparse applying the Extender action to every occurrence of the option.
RECURSIVE ParseExtender(_, _)
ParseExtender(dest, occurrences) ==
  IF occurrences = <<>> THEN dest
  ELSE ParseExtender(Extender(dest, Head(occurrences)), Tail(occurrences))

\* _parse_args: --build is declared with action=Extender, nargs="*" and no
\* default, so the namespace holds None or the concatenated values.
ParseBuildArg(occurrences) == ParseExtender(PyNone, occurrences)

\* "%s*" % ref_expr for every ref_expr of build_param
RECURSIVE AppendStar(_)
AppendStar(build_param) ==
  IF build_param = <<>> THEN <<>>
  ELSE <<Head(build_param) \o s_star>> \o AppendStar(Tail(build_param))

\* Mutant: an absent --build builds what is missing.
get_build_sources_parameter_default_missing(build_param) ==
  IF build_param.type = "list"
  THEN IF Len(build_param.list) = 0 THEN PyList(<<s_star>>)
       ELSE IF Len(build_param.list) = 1 /\ build_param.list[1] = s_never
         THEN PyBool(FALSE)
       ELSE IF Len(build_param.list) = 1 /\ build_param.list[1] = s_missing
         THEN PyBool(TRUE)
       ELSE IF Len(build_param.list) = 1 /\ build_param.list[1] = s_outdated
         THEN PyStr("outdated")
       ELSE PyList(AppendStar(build_param.list))
  ELSE PyBool(TRUE)

\* Mutant: --build with no value builds what is missing.
get_build_sources_parameter_empty_missing(build_param) ==
  IF build_param.type = "list"
  THEN IF Len(build_param.list) = 0 THEN PyBool(TRUE)
       ELSE IF Len(build_param.list) = 1 /\ build_param.list[1] = s_never
         THEN PyBool(FALSE)
       ELSE IF Len(build_param.list) = 1 /\ build_param.list[1] = s_missing
         THEN PyBool(TRUE)
       ELSE IF Len(build_param.list) = 1 /\ build_param.list[1] = s_outdated
         THEN PyStr("outdated")
       ELSE PyList(AppendStar(build_param.list))
  ELSE PyBool(FALSE)

\* Mutant: --build=outdated is taken for --build=missing.
get_build_sources_parameter_outdated_missing(build_param) ==
  IF build_param.type = "list"
  THEN IF Len(build_param.list) = 0 THEN PyList(<<s_star>>)
       ELSE IF Len(build_param.list) = 1 /\ build_param.list[1] = s_never
         THEN PyBool(FALSE)
       ELSE IF Len(build_param.list) = 1 /\ build_param.list[1] = s_missing
         THEN PyBool(TRUE)
       ELSE IF Len(build_param.list) = 1 /\ build_param.list[1] = s_outdated
         THEN PyBool(TRUE)
       ELSE PyList(AppendStar(build_param.list))
  ELSE PyBool(FALSE)

\* Mutant: a keyword is honoured wherever it stands in the list.
get_build_sources_parameter_keyword_anywhere(build_param) ==
  IF build_param.type = "list"
  THEN IF Len(build_param.list) = 0 THEN PyList(<<s_star>>)
       ELSE IF \E i \in 1..Len(build_param.list) : build_param.list[i] = s_never
         THEN PyBool(FALSE)
       ELSE IF \E i \in 1..Len(build_param.list) : build_param.list[i] = s_missing
         THEN PyBool(TRUE)
       ELSE IF \E i \in 1..Len(build_param.list) : build_param.list[i] = s_outdated
         THEN PyStr("outdated")
       ELSE PyList(AppendStar(build_param.list))
  ELSE PyBool(FALSE)

_get_build_sources_parameter(build_param) ==
  IF build_param.type = "list"
  THEN IF Len(build_param.list) = 0 THEN PyList(<<s_star>>)
       ELSE IF Len(build_param.list) = 1 /\ build_param.list[1] = s_never
         THEN PyBool(FALSE)
       ELSE IF Len(build_param.list) = 1 /\ build_param.list[1] = s_missing
         THEN PyBool(TRUE)
       ELSE IF Len(build_param.list) = 1 /\ build_param.list[1] = s_outdated
         THEN PyStr("outdated")
       ELSE PyList(AppendStar(build_param.list))
  ELSE PyBool(FALSE)

\* fnmatch.fnmatch(name, pattern) for patterns made of literal characters
\* and "*" (POSIX: no case normalisation).
RECURSIVE fnmatch(_, _)
fnmatch(name, pattern) ==
  IF pattern = <<>> THEN name = <<>>
  ELSE IF Head(pattern) = "*"
    THEN \/ fnmatch(name, Tail(pattern))
         \/ name # <<>> /\ fnmatch(Tail(name), pattern)
  ELSE /\ name # <<>>
       /\ Head(name) = Head(pattern)
       /\ fnmatch(Tail(name), Tail(pattern))


\* ---------------------------------------------------------------- the cache
Remotes == <<"default", "other">>
RemoteNames == {Remotes[i] : i \in 1..Len(Remotes)}

\* The three recipes of the test: conanfile_py with exports, the same with
\* exports_sources, and combined_conanfile.
Modes == {"exports", "exports_sources", "both"}

CONANFILE == "conanfile.py"
CONAN_MANIFEST == "conanmanifest.txt"
CONANINFO == "conaninfo.txt"
EXPORT_SOURCES_DIR == "export_source"
EXPORT_TGZ_NAME == "conan_export.tgz"
EXPORT_SOURCES_TGZ_NAME == "conan_sources.tgz"

Contents == 1..NumContents

\* A regular file: its name and the checksum of its content.  The content of
\* hello.h is one of Contents; every other file has one fixed content.
File(name, sum) == [name |-> name, sum |-> sum]
Names(files) == {f.name : f \in files}

\* self.client.save({"conanfile.py": ..., "hello.h": ..., "data.txt": ...})
\* with hello.h holding content h.
Workspace(h) == {File(CONANFILE, 0), File("hello.h", h), File("data.txt", 0)}

\* exports = "*.h", "*.cpp" (conanfile_py) or "*.txt" (combined_conanfile)
exports(m, f) ==
  \/ m = "exports" /\ f.name = "hello.h"
  \/ m = "both" /\ f.name = "data.txt"

\* exports_sources = "*.h", "*.cpp"
exports_sources(m, f) ==
  m \in {"exports_sources", "both"} /\ f.name = "hello.h"

\* An entry of a manifest: relative path (folder, name) and checksum.
Sums(dir, files) == {[dir |-> dir, name |-> f.name, sum |-> f.sum] : f \in files}

NoManifest == [time |-> 0, file_sums |-> {}]

\* The export folder of the local cache.  files: the regular files at its
\* top other than conanmanifest.txt and the archives; src_exists/src_files:
\* the EXPORT_SOURCES_DIR sub-folder; tgz: the archives lying in the folder.
NoExport ==
  [exists |-> FALSE, files |-> {}, src_exists |-> FALSE, src_files |-> {},
   tgz |-> {}, manifest |-> NoManifest]

\* os.listdir of the export folder
ExportListing(e) ==
  IF ~e.exists THEN {}
  ELSE Names(e.files) \cup {CONAN_MANIFEST} \cup e.tgz
       \cup (IF e.src_exists THEN {EXPORT_SOURCES_DIR} ELSE {})

NoFolder == [exists |-> FALSE, files |-> {}]
\* The source folder of the local cache; runs counts the executions of the
\* source stage (the recipe's source() callback) in this folder.
NoSource == [exists |-> FALSE, files |-> {}, runs |-> 0]
\* A package folder: its files, the time its manifest was computed, and the
\* recipe fingerprint conaninfo.txt records.
NoPackage == [exists |-> FALSE, files |-> {}, recipe_hash |-> {}, time |-> 0]

\* A package on a server: conaninfo.txt and the manifest loose, the payload
\* in the package archive.
NoServerPackage ==
  [exists |-> FALSE, files |-> {}, package_tgz |-> {}, recipe_hash |-> {},
   time |-> 0]

\* The manifest of a package folder; the content of conaninfo.txt is the
\* recipe fingerprint it records.
package_manifest(pkg) ==
  [time |-> pkg.time,
   file_sums |-> Sums(".", {f \in pkg.files : f.name # CONAN_MANIFEST}),
   conaninfo |-> pkg.recipe_hash]

\* The manifests install --manifests stores in the user's folder: the one
\* of the recipe (export/conanmanifest.txt) and the one of the package.
NoManifests ==
  [recipe |-> [exists |-> FALSE, manifest |-> NoManifest],
   package |-> [exists |-> FALSE, manifest |-> package_manifest(NoPackage)]]

\* The export folder of a recipe on a server: loose files, the two archives
\* and the manifest.
NoRecipe ==
  [exists |-> FALSE, files |-> {}, export_tgz |-> NoFolder,
   sources_tgz |-> NoFolder, manifest |-> NoManifest]

\* os.listdir(server.paths.export(reference))
ServerListing(r) ==
  IF ~r.exists THEN {}
  ELSE Names(r.files) \cup {CONAN_MANIFEST}
       \cup (IF r.export_tgz.exists THEN {EXPORT_TGZ_NAME} ELSE {})
       \cup (IF r.sources_tgz.exists THEN {EXPORT_SOURCES_TGZ_NAME} ELSE {})

\* What a command was given and what it reported.  install: raw (form of
\* the --build value), mode, forced, update, recipe (what happened to the
\* recipe), outcome (what happened to the package), from (remote a package
\* was downloaded from), check (result of the update check), local (the
\* local package as the command found it).  upload: force, all, to (target
\* remote), transfer (the recipe was sent).  export: keep (--keep-source).
\* source: force.  remove: whole (the whole cache entry), src (-s).
\* install and source: sourced (the source stage ran).  install: manifests
\* (a manifest folder was given), verify.  install, source, copy, upload:
\* fetched (the exported sources were fetched from the remote).
NoLast ==
  [op |-> "none", ok |-> TRUE, raw |-> "absent", mode |-> "never",
   forced |-> FALSE, update |-> FALSE, recipe |-> "none",
   outcome |-> "none", from |-> None, check |-> 0, local |-> "absent",
   force |-> FALSE, all |-> FALSE, to |-> None, transfer |-> FALSE,
   keep |-> FALSE, whole |-> FALSE, src |-> FALSE, sourced |-> FALSE,
   manifests |-> FALSE, verify |-> FALSE, fetched |-> FALSE]

\* No command line yet, and nobody downloading.
NoArgv == [words |-> <<>>, help |-> FALSE, args |-> PyNone]
Callers == {"a", "b"}
NoDownloads ==
  [c \in Callers |-> [pc |-> "idle", staging |-> NoPackage, seen |-> NoPackage]]

VARIABLES
  mode,        \* which of the three recipes the user's folder holds
  clock,       \* wall clock, read when a manifest is computed
  export,      \* local cache: export folder of the reference
  source,      \* local cache: source folder of the reference
  package,     \* local cache: package folder of the package id of the test
  registry,    \* remote the recipe was last retrieved from / uploaded to
  servers,     \* per remote: the recipe and the package it stores
  last,        \* what the last command was given and what it reported
  manifests,   \* the manifests stored in the user's .conan_manifests folder
  copied,      \* local cache: export folder of Hello/0.1@lasote/stable
  scenario,    \* progress through the command sequence of export_test
  commands,    \* number of commands run so far
  build_param, \* argument of _get_build_sources_parameter (SpecBuild)
  build_mode,  \* its result (SpecBuild)
  argv,        \* the command line Command.run was given (SpecCommand)
  calls,       \* the collaborator calls the command has made, in order
  raised,      \* the exception in flight, None when there is none
  errors,      \* what Command.run returned, PyNone while it has not
  pc,          \* where Command.run stands
  down         \* the concurrent downloads of the package (SpecDownload)

vars ==
  <<mode, clock, export, source, package, registry, servers, last, manifests,
    copied, scenario, commands, build_param, build_mode, argv, calls,
    raised, errors, pc, down>>

cache == <<export, source, package, registry>>
args == <<build_param, build_mode>>
user == <<manifests, copied>>
cli == <<argv, calls, raised, errors, pc>>

Init ==
  /\ mode \in Modes
  /\ clock = 0
  /\ export = NoExport
  /\ source = NoSource
  /\ package = NoPackage
  /\ registry = None
  /\ servers = [rm \in RemoteNames |->
                  [recipe |-> NoRecipe, package |-> NoServerPackage]]
  /\ last = NoLast
  /\ manifests = NoManifests
  /\ copied = NoExport
  /\ scenario = 0
  /\ commands = 0
  /\ build_param = PyNone
  /\ build_mode = PyBool(FALSE)
  /\ argv = NoArgv
  /\ calls = <<>>
  /\ raised = None
  /\ errors = PyNone
  /\ pc = "idle"
  /\ down = NoDownloads

\* Progress through the commands of export_test: export, install
\* --build=missing, upload --all, remove -f, install.  The count restarts
\* never: any other command, or a command out of order, leaves the sequence.
Off == 99
Advance(at) == IF scenario = at THEN at + 1 ELSE Off

\* One more command is run.
Run == commands < MaxCommands /\ commands' = commands + 1

\* FileTreeManifest.create(export folder): every file below the folder but
\* the manifest itself, stamped with the current time.
FileTreeManifest(time, files, src_files) ==
  [time |-> time,
   file_sums |-> Sums(".", files) \cup Sums(EXPORT_SOURCES_DIR, src_files)]

\* conan export lasote/testing [-k], run in a folder whose hello.h holds h.
\* The export folder is replaced and a new manifest computed; the source
\* folder is removed unless --keep-source.  Contents are only ever compared
\* for equality, so they are numbered in the order they first appear: the
\* n-th export brings one of the first n contents.
Export(h, keep_source) ==
  /\ Run
  /\ clock < MaxTime
  /\ h <= clock + 1
  /\ clock' = clock + 1
  /\ LET files == {f \in Workspace(h) : f.name = CONANFILE \/ exports(mode, f)}
         src_files == {f \in Workspace(h) : exports_sources(mode, f)}
     IN export' = [exists |-> TRUE, files |-> files, src_exists |-> TRUE,
                   src_files |-> src_files, tgz |-> {},
                   manifest |-> FileTreeManifest(clock', files, src_files)]
  /\ source' = IF keep_source THEN source ELSE NoSource
  /\ last' = [NoLast EXCEPT !.op = "export", !.keep = keep_source]
  /\ scenario' = IF keep_source THEN Off ELSE Advance(0)
  /\ UNCHANGED <<mode, package, registry, servers, user, args, cli, down>>


\* ------------------------------------------------------------------ install
\* Which form the raw --build value has (recorded with the command).
RawKind(param) ==
  IF param = PyNone THEN "absent"
  ELSE IF param.list = <<>> THEN "empty"
  ELSE IF param.list = <<s_never>> THEN "never"
  ELSE IF param.list = <<s_missing>> THEN "missing"
  ELSE IF param.list = <<s_outdated>> THEN "outdated"
  ELSE "other"

\* The build policy the manager reads out of build_mode: False is never,
\* True is missing, "outdated", or a list of force-build patterns.
ModeKind(bm) ==
  IF bm.type = "bool" THEN (IF bm.bool THEN "missing" ELSE "never")
  ELSE IF bm.type = "str" /\ bm.str = "outdated" THEN "outdated"
  ELSE "patterns"

\* The reference matches one of the force-build patterns.
build_forced(bm) ==
  /\ bm.type = "list"
  /\ \E i \in 1..Len(bm.list) : fnmatch(reference_str, bm.list[i])

\* Mutant: a remote manifest that is not older counts as an update.
update_available_not_older(local, remote) ==
  IF ~remote.exists THEN 0
  ELSE IF remote.manifest.file_sums = local.file_sums THEN 0
  ELSE IF remote.manifest.time >= local.time THEN 1
  ELSE -1

\* Mutant: the time alone decides.
update_available_time_only(local, remote) ==
  IF ~remote.exists THEN 0
  ELSE IF remote.manifest.time > local.time THEN 1
  ELSE IF remote.manifest.file_sums = local.file_sums THEN 0
  ELSE -1

\* checkUpdates: 0 when the remote has no recipe or the same checksums,
\* 1 when the checksums differ and the remote manifest is strictly newer,
\* -1 when they differ and the local manifest is at least as new.
update_available(local, remote) ==
  IF ~remote.exists THEN 0
  ELSE IF remote.manifest.file_sums = local.file_sums THEN 0
  ELSE IF remote.manifest.time > local.time THEN 1
  ELSE -1

\* Mutant: only the recipe file and the export archive are fetched.
retrieve_recipe_known_files(remote) ==
  [exists |-> TRUE,
   files |-> {f \in remote.files : f.name = CONANFILE}
             \cup remote.export_tgz.files,
   src_exists |-> FALSE, src_files |-> {}, tgz |-> {},
   manifest |-> remote.manifest]

\* Mutant: the export archive is left in the folder after it was unpacked.
retrieve_recipe_keeps_archive(remote) ==
  [exists |-> TRUE, files |-> remote.files \cup remote.export_tgz.files,
   src_exists |-> FALSE, src_files |-> {},
   tgz |-> IF remote.export_tgz.exists THEN {EXPORT_TGZ_NAME} ELSE {},
   manifest |-> remote.manifest]

\* Mutant: the export-sources archive is fetched and unpacked too.
retrieve_recipe_with_sources(remote) ==
  [exists |-> TRUE, files |-> remote.files \cup remote.export_tgz.files,
   src_exists |-> TRUE, src_files |-> remote.sources_tgz.files, tgz |-> {},
   manifest |-> remote.manifest]

\* Download of a recipe: the loose files and the manifest are fetched, the
\* export archive is unpacked and deleted, the export-sources archive is
\* left on the server.
retrieve_recipe(remote) ==
  [exists |-> TRUE, files |-> remote.files \cup remote.export_tgz.files,
   src_exists |-> FALSE, src_files |-> {}, tgz |-> {},
   manifest |-> remote.manifest]

\* The first remote, in registry order, among the candidates that holds the
\* recipe; None when there is none.
RECURSIVE first_remote(_, _)
first_remote(names, candidates) ==
  IF names = <<>> THEN None
  ELSE IF Head(names) \in candidates /\ servers[Head(names)].recipe.exists
    THEN Head(names)
  ELSE first_remote(Tail(names), candidates)

\* The recipe stage of install: a cached recipe is kept, and replaced only
\* under --update when its remote has an update; a recipe that is not cached
\* is looked up in the remote given with -r, else in every remote in order.
get_recipe(update, remote) ==
  IF export.exists
  THEN LET st == IF update /\ registry # None
                 THEN update_available(export.manifest, servers[registry].recipe)
                 ELSE 0
       IN IF st = 1
          THEN [ok |-> TRUE, export |-> retrieve_recipe(servers[registry].recipe),
                registry |-> registry, report |-> "updated", check |-> st]
          ELSE [ok |-> TRUE, export |-> export, registry |-> registry,
                report |-> "installed", check |-> st]
  ELSE LET found == first_remote(Remotes, IF remote = None THEN RemoteNames
                                           ELSE {remote})
       IN IF found = None
          THEN [ok |-> FALSE, export |-> export, registry |-> registry,
                report |-> "notfound", check |-> 0]
          ELSE [ok |-> TRUE, export |-> retrieve_recipe(servers[found].recipe),
                registry |-> found, report |-> "retrieved", check |-> 0]

\* Upload of a package: the payload is packed in conan_package.tgz,
\* conaninfo.txt and the manifest are sent as they are.
upload_package(pkg) ==
  [exists |-> TRUE,
   files |-> {f \in pkg.files : f.name \in {CONANINFO, CONAN_MANIFEST}},
   package_tgz |-> {f \in pkg.files : f.name \notin {CONANINFO, CONAN_MANIFEST}},
   recipe_hash |-> pkg.recipe_hash, time |-> pkg.time]

\* Mutant: the archive is left packed.
download_package_packed(rpkg) ==
  [exists |-> TRUE, files |-> rpkg.files, recipe_hash |-> rpkg.recipe_hash,
   time |-> rpkg.time]

\* Download of a package: the loose files are fetched and the archive is
\* unpacked next to them.
download_package(rpkg) ==
  [exists |-> TRUE, files |-> rpkg.files \cup rpkg.package_tgz,
   recipe_hash |-> rpkg.recipe_hash, time |-> rpkg.time]

\* Mutant: any remote that has the binary will do.
package_remote_any(provenance) ==
  IF servers[provenance].package.exists THEN provenance
  ELSE IF \E rm \in RemoteNames : servers[rm].package.exists
    THEN CHOOSE rm \in RemoteNames : servers[rm].package.exists
  ELSE provenance

\* Binaries are looked up only in the remote the recipe was retrieved from.
package_remote(provenance) == provenance

\* A package is outdated when the recipe fingerprint recorded with it is
\* not the one of the current recipe manifest.
package_outdated(pkg, manifest) == pkg.recipe_hash # manifest.file_sums

\* BuildPolicyResolver: Reuse, Download, Build or MissingBinary for the
\* package, from the build mode, the local package and the remote one.
\* Under "outdated" a package built from a superseded recipe does not count,
\* and a stale local package is rebuilt.  A reference that matches no
\* force-build pattern is never built.
build_policy(bm, local, remote, manifest) ==
  LET kind == ModeKind(bm)
      usable(pkg) ==
        pkg.exists /\ ~(kind = "outdated" /\ package_outdated(pkg, manifest))
  IN IF build_forced(bm) THEN "Build"
     ELSE IF usable(local) THEN "Reuse"
     ELSE IF local.exists THEN "Build"
     ELSE IF usable(remote) THEN "Download"
     ELSE IF kind \in {"never", "patterns"} THEN "MissingBinary"
     ELSE "Build"

\* Mutant: the folder of the exported sources is created, nothing is fetched.
complete_recipe_sources_empty(e, provenance) ==
  IF e.src_exists \/ provenance = None THEN e
  ELSE [e EXCEPT !.src_exists = TRUE]

\* Before an operation that needs them, the exported sources are fetched
\* from the recipe's remote when the export folder lacks them.
complete_recipe_sources(e, provenance) ==
  IF e.src_exists \/ provenance = None THEN e
  ELSE [e EXCEPT !.src_exists = TRUE,
                 !.src_files = servers[provenance].recipe.sources_tgz.files]

\* Mutant: the source stage runs whether or not the folder is populated.
config_source_always(e, src, force) ==
  [exists |-> TRUE,
   files |-> e.files \cup e.src_files \cup {File(CONAN_MANIFEST, 0)},
   runs |-> src.runs + 1]

\* The source stage.  With force the source folder is removed first; a
\* folder that is there is left alone; otherwise the folder is created as a
\* copy of the export folder, manifest included, plus the exported sources,
\* and the recipe's source() runs in it.
config_source(e, src, force) ==
  IF src.exists /\ ~force THEN src
  ELSE [exists |-> TRUE,
        files |-> e.files \cup e.src_files \cup {File(CONAN_MANIFEST, 0)},
        runs |-> 1]

\* package(): self.copy("*.h", "include"), and for the combined recipe
\* self.copy("data.txt", "docs"); conaninfo.txt and the manifest are added.
create_package(m, src, manifest, time) ==
  [exists |-> TRUE,
   files |-> {File(CONANINFO, 0), File(CONAN_MANIFEST, 0)}
             \cup {File("include/hello.h", f.sum) :
                     f \in {g \in src.files : g.name = "hello.h"}}
             \cup {File("docs/data.txt", f.sum) :
                     f \in {g \in src.files : m = "both" /\ g.name = "data.txt"}},
   recipe_hash |-> manifest.file_sums,
   time |-> time]

\* Mutant: an install with a manifest folder runs the source stage too.
runs_source_stage_for_manifests(outcome, manifest_folder) ==
  outcome = "Build" \/ manifest_folder

\* The source stage is part of a build.
runs_source_stage(outcome, manifest_folder) == outcome = "Build"

\* Mutant: the manifest of the recipe is taken as it was downloaded.
install_needs_sources_to_build(outcome, manifest_folder) == outcome = "Build"

\* The exported sources are needed to build, and to store or verify the
\* manifest of the recipe, which lists them.
install_needs_sources(outcome, manifest_folder) ==
  outcome = "Build" \/ manifest_folder

\* A manifest against the stored one: a stored manifest must be matched; when
\* none is stored, --verify fails and --manifests stores this one.
check_manifest(stored, manifest, verify) ==
  IF stored.exists THEN [ok |-> stored.manifest = manifest, stored |-> stored]
  ELSE IF verify THEN [ok |-> FALSE, stored |-> stored]
  ELSE [ok |-> TRUE, stored |-> [exists |-> TRUE, manifest |-> manifest]]

\* ConanManager.install for the reference of the test.
manager_install(param, bm, update, remote, manifest_folder, manifest_verify) ==
  \E r \in {get_recipe(update, remote)} :
  \E e1 \in {IF r.ok /\ install_needs_sources("none", manifest_folder)
             THEN complete_recipe_sources(r.export, r.registry)
             ELSE r.export} :
  \E rc \in {IF r.ok /\ manifest_folder
             THEN check_manifest(manifests.recipe, e1.manifest, manifest_verify)
             ELSE [ok |-> TRUE, stored |-> manifests.recipe]} :
  \E rpkg \in {IF r.registry = None THEN NoServerPackage
               ELSE servers[package_remote(r.registry)].package} :
  \E outcome \in {IF r.ok /\ rc.ok
                  THEN build_policy(bm, package, rpkg, e1.manifest)
                  ELSE "none"} :
  \E e2 \in {IF install_needs_sources(outcome, FALSE)
             THEN complete_recipe_sources(e1, r.registry)
             ELSE e1} :
  \E src2 \in {IF runs_source_stage(outcome, manifest_folder)
               THEN config_source(e2, source, FALSE)
               ELSE source} :
  \E pkg2 \in {CASE outcome = "Build" ->
                      create_package(mode, src2, e2.manifest, clock)
                 [] outcome = "Download" -> download_package(rpkg)
                 [] OTHER -> package} :
  \E pchk \in {IF manifest_folder /\ outcome \in {"Build", "Download", "Reuse"}
               THEN check_manifest(manifests.package, package_manifest(pkg2),
                                   manifest_verify)
               ELSE [ok |-> TRUE, stored |-> manifests.package]} :
     /\ export' = e2
     /\ registry' = r.registry
     /\ source' = src2
     /\ package' = pkg2
     /\ manifests' = [recipe |-> rc.stored, package |-> pchk.stored]
     /\ last' = [NoLast EXCEPT
                   !.op = "install",
                   !.ok = r.ok /\ rc.ok /\ outcome # "MissingBinary" /\ pchk.ok,
                   !.raw = RawKind(param), !.mode = ModeKind(bm),
                   !.forced = build_forced(bm), !.update = update,
                   !.recipe = IF r.ok /\ ~rc.ok THEN "rejected" ELSE r.report,
                   !.outcome = outcome,
                   !.from = IF outcome = "Download"
                            THEN package_remote(r.registry) ELSE None,
                   !.check = r.check,
                   !.sourced = (src2 # source),
                   !.fetched = (e2.src_exists /\ ~r.export.src_exists),
                   !.manifests = manifest_folder,
                   !.verify = manifest_verify,
                   !.local = IF ~package.exists THEN "absent"
                             ELSE IF package_outdated(package, r.export.manifest)
                               THEN "stale"
                             ELSE "fresh"]

\* conan install Hello/0.1@lasote/testing [--build ...] [--update] [-r remote]
\* [--manifests] [--verify]
Install(occurrences, update, remote, manifests_arg, verify_arg) ==
  \E param \in {ParseBuildArg(occurrences)} :
  \E bm \in {_get_build_sources_parameter(param)} :
     /\ Run
     /\ IF verify_arg # None /\ manifests_arg # None
        THEN /\ last' = [NoLast EXCEPT
                           !.op = "install", !.ok = FALSE,
                           !.raw = RawKind(param), !.mode = ModeKind(bm),
                           !.forced = build_forced(bm), !.update = update,
                           !.recipe = "notfound", !.manifests = TRUE,
                           !.verify = TRUE]
             /\ UNCHANGED <<cache, manifests>>
        ELSE manager_install(param, bm, update, remote,
                             verify_arg # None \/ manifests_arg # None,
                             verify_arg # None)
     /\ scenario' = IF update \/ remote # None
                       \/ verify_arg # None \/ manifests_arg # None THEN Off
                    ELSE IF RawKind(param) = "missing" THEN Advance(1)
                    ELSE IF RawKind(param) = "absent" THEN Advance(4)
                    ELSE Off
     /\ UNCHANGED <<mode, clock, servers, copied, args, cli, down>>

\* --------------------------------------------------------------------- copy
\* conan copy Hello/0.1@lasote/testing lasote/stable [--force]: the exported
\* sources of the recipe are fetched when the export folder lacks them, then
\* the export folder is copied to the one of the new reference; an existing
\* destination is overridden with --force only.
Copy(force) ==
  \E e2 \in {IF export.exists THEN complete_recipe_sources(export, registry)
             ELSE export} :
     /\ Run
     /\ export' = e2
     /\ copied' = IF export.exists /\ (force \/ ~copied.exists) THEN e2
                  ELSE copied
     /\ last' = [NoLast EXCEPT !.op = "copy", !.ok = export.exists,
                               !.force = force,
                               !.fetched = (e2.src_exists /\ ~export.src_exists)]
     /\ scenario' = Off
     /\ UNCHANGED <<mode, clock, source, package, registry, servers,
                    manifests, args, cli, down>>

\* ------------------------------------------------------------------- source
\* conan source Hello/0.1@lasote/testing [--force]: runs the source stage of
\* the recipe in the cache, fetching the exported sources first when the
\* export folder lacks them.  A source folder that is there is left alone
\* unless --force is given.
Source(force) ==
  \E run \in {export.exists /\ (force \/ ~source.exists)} :
  \E e2 \in {IF run THEN complete_recipe_sources(export, registry)
             ELSE export} :
     /\ Run
     /\ export' = e2
     /\ source' = IF export.exists THEN config_source(e2, source, force)
                   ELSE source
     /\ last' = [NoLast EXCEPT !.op = "source", !.ok = export.exists,
                               !.force = force, !.sourced = run,
                               !.fetched = (e2.src_exists /\ ~export.src_exists)]
     /\ scenario' = Off
     /\ UNCHANGED <<mode, clock, package, registry, servers, user, args,
                    cli, down>>

\* ------------------------------------------------------------------- upload
\* The archives upload packs in the export folder: conan_export.tgz when
\* there are exported files besides the recipe, conan_sources.tgz when the
\* export-sources folder is there and not empty.
compress_files(e) ==
  [e EXCEPT !.tgz =
     e.tgz
     \cup (IF {f \in e.files : f.name # CONANFILE} # {}
           THEN {EXPORT_TGZ_NAME} ELSE {})
     \cup (IF e.src_exists /\ e.src_files # {}
           THEN {EXPORT_SOURCES_TGZ_NAME} ELSE {})]

\* Mutant: the exported files are sent loose, next to their archive.
upload_recipe_loose(e, old) ==
  LET exported == {f \in e.files : f.name # CONANFILE}
  IN [exists |-> TRUE,
      files |-> e.files,
      export_tgz |-> [exists |-> exported # {}, files |-> exported],
      sources_tgz |-> IF e.src_exists
                      THEN [exists |-> e.src_files # {}, files |-> e.src_files]
                      ELSE old.sources_tgz,
      manifest |-> e.manifest]

\* What the server holds after the recipe was sent: the recipe file and the
\* manifest loose, the exported files and the exported sources in their
\* archives.  Exported sources that the client does not have are not sent,
\* the server keeps its archive.
upload_recipe(e, old) ==
  LET exported == {f \in e.files : f.name # CONANFILE}
  IN [exists |-> TRUE,
      files |-> {f \in e.files : f.name = CONANFILE},
      export_tgz |-> [exists |-> exported # {}, files |-> exported],
      sources_tgz |-> IF e.src_exists
                      THEN [exists |-> e.src_files # {}, files |-> e.src_files]
                      ELSE old.sources_tgz,
      manifest |-> e.manifest]

\* Without --force, a remote recipe that differs and is newer than the local
\* one is not overwritten.
check_recipe_date(e, old, force) ==
  \/ force
  \/ ~old.exists
  \/ old.manifest.file_sums = e.manifest.file_sums
  \/ old.manifest.time <= e.manifest.time

\* Mutant: the exported sources are completed before every upload.
upload_needs_sources_always(target, provenance) == TRUE

\* The exported sources are needed to upload to a remote other than the
\* one the recipe is associated with.
upload_needs_sources(target, provenance) == target # provenance

\* The remote recorded for the recipe after a successful upload: the target.
upload_provenance(target, provenance) == target

\* conan upload Hello/0.1@lasote/testing [--all] [--force] [-r remote]
Upload(remote, all, force) ==
  \E target \in {IF remote # None THEN remote
                 ELSE IF registry # None THEN registry
                 ELSE Remotes[1]} :
  \E old \in {servers[target].recipe} :
  \E ok \in {export.exists /\ check_recipe_date(export, old, force)} :
  \E e2 \in {compress_files(IF upload_needs_sources(target, registry)
                            THEN complete_recipe_sources(export, registry)
                            ELSE export)} :
  \E transfer \in {force \/ ~old.exists \/ old.manifest # e2.manifest} :
     /\ Run
     /\ export' = IF ok THEN e2 ELSE export
     /\ registry' = IF ok THEN upload_provenance(target, registry)
                     ELSE registry
     /\ servers' =
          IF ~ok THEN servers
          ELSE [servers EXCEPT
                  ![target].recipe = IF transfer THEN upload_recipe(e2, old)
                                     ELSE old,
                  ![target].package = IF all /\ package.exists
                                      THEN upload_package(package)
                                      ELSE @]
     /\ last' = [NoLast EXCEPT !.op = "upload", !.ok = ok, !.force = force,
                               !.all = all, !.to = target,
                               !.transfer = ok /\ transfer,
                               !.fetched = (/\ ok /\ e2.src_exists
                                            /\ ~export.src_exists)]
     /\ scenario' = IF all /\ ~force /\ remote = None THEN Advance(2) ELSE Off
     /\ UNCHANGED <<mode, clock, source, package, user, args, cli, down>>

\* ------------------------------------------------------------------- remove
\* conan remove Hello/0.1@lasote/testing -f [-p] [-s]: with -p or -s only
\* the packages or the source folder go, otherwise the whole cache entry
\* and its registry entry.  packages is None, or the empty list of -p given
\* without a value (const=[]).
\* Mutant: -p takes the source folder along.
removes_source_with_packages(packages, src) == src \/ packages # PyNone

\* -s removes the source folder.
removes_source(packages, src) == src

\* Mutant: the recipe is never removed.
removes_recipe_never(packages, src) == FALSE

\* With no -p and no -s the whole cache entry is removed.
removes_recipe(packages, src) == packages = PyNone /\ ~src

Remove(packages, src) ==
  /\ Run
  /\ IF removes_recipe(packages, src)
     THEN /\ export' = NoExport
          /\ source' = NoSource
          /\ package' = NoPackage
          /\ registry' = None
     ELSE /\ package' = IF packages # PyNone THEN NoPackage ELSE package
          /\ source' = IF removes_source(packages, src) THEN NoSource
                        ELSE source
          /\ UNCHANGED <<export, registry>>
  /\ last' = [NoLast EXCEPT !.op = "remove", !.ok = export.exists,
                            !.whole = (packages = PyNone /\ ~src),
                            !.src = src]
  /\ scenario' = IF packages = PyNone /\ ~src THEN Advance(3) ELSE Off
  /\ UNCHANGED <<mode, clock, servers, user, args, cli, down>>

\* ------------------------------------------------------------- server edit
\* update_test changes the recipe on the server behind the client's back:
\* license.txt is saved next to the recipe and listed in the manifest (add),
\* and the manifest time is increased by one (bump).
LICENSE == File("license.txt", 0)

ServerEdit(rm, add, bump) ==
  LET r == servers[rm].recipe
  IN /\ Run
     /\ r.exists
     /\ add \/ bump
     /\ add => LICENSE \notin r.files
     /\ bump => r.manifest.time < MaxTime
     /\ servers' =
          [servers EXCEPT ![rm].recipe =
             [r EXCEPT
                !.files = IF add THEN @ \cup {LICENSE} ELSE @,
                !.manifest =
                   [time |-> IF bump THEN r.manifest.time + 1
                             ELSE r.manifest.time,
                    file_sums |-> IF add
                                  THEN r.manifest.file_sums
                                       \cup Sums(".", {LICENSE})
                                  ELSE r.manifest.file_sums]]]
     /\ last' = [NoLast EXCEPT !.op = "edit"]
     /\ scenario' = Off
     /\ UNCHANGED <<mode, clock, cache, user, args, cli, down>>

\* ------------------------------------------------------------ specification
Next ==
  \/ \E h \in Contents, keep_source \in BOOLEAN : Export(h, keep_source)
  \/ \E a \in InstallArgs : Install(a.build, a.update, a.remote, None, None)
  \/ \E remote \in {None} \cup RemoteNames, all \in BOOLEAN, force \in BOOLEAN :
       Upload(remote, all, force)
  \/ \E packages \in {PyNone, PyList(<<>>)}, src \in BOOLEAN :
       Remove(packages, src)
  \/ \E add \in BOOLEAN, bump \in BOOLEAN : ServerEdit(Remotes[1], add, bump)

Spec == Init /\ [][Next]_vars

\* ------------------------------------------------- the commands of the test
\* Every command the test runs, with the options it runs them with: export,
\* install (with manifests too), copy, source, upload and remove, against
\* servers nobody else writes to.
NextCache ==
  \/ \E h \in Contents, keep_source \in BOOLEAN : Export(h, keep_source)
  \/ \E a \in ManifestInstallArgs :
       Install(a.build, a.update, None, a.manifests, a.verify)
  \/ \E force \in BOOLEAN : Copy(force)
  \/ \E force \in BOOLEAN : Source(force)
  \/ \E remote \in {None, "other"}, all \in BOOLEAN :
       Upload(remote, all, FALSE)
  \/ \E packages \in {PyNone, PyList(<<>>)}, src \in BOOLEAN :
       Remove(packages, src)

SpecCache == Init /\ [][NextCache]_vars

\* ------------------------------------------- _get_build_sources_parameter
\* The function alone, applied once to every raw --build value.
InitBuild ==
  /\ mode = "exports"
  /\ clock = 0
  /\ export = NoExport
  /\ source = NoSource
  /\ package = NoPackage
  /\ registry = None
  /\ servers = [rm \in RemoteNames |->
                  [recipe |-> NoRecipe, package |-> NoServerPackage]]
  /\ last = NoLast
  /\ manifests = NoManifests
  /\ copied = NoExport
  /\ scenario = Off
  /\ commands = 0
  /\ build_param \in BuildParams
  /\ build_mode = PyStr("unset")
  /\ argv = NoArgv
  /\ calls = <<>>
  /\ raised = None
  /\ errors = PyNone
  /\ pc = "idle"
  /\ down = NoDownloads

GetBuildSourcesParameter ==
  /\ last.op = "none"
  /\ build_mode' = _get_build_sources_parameter(build_param)
  /\ last' = [NoLast EXCEPT !.op = "build_param"]
  /\ UNCHANGED <<mode, clock, cache, servers, user, scenario, commands,
                 build_param, cli, down>>

NextBuild == GetBuildSourcesParameter

SpecBuild == InitBuild /\ [][NextBuild]_vars


\* ======================================================== the command layer
\* A str given by its characters (argparse hands over str values; the empty
\* str is what --option= or an empty argument gives).
PyText(chars) == [type |-> "str", bool |-> FALSE, str |-> "", list |-> chars]

\* bool(value): None, False, the empty str and the empty list are false.
Truthy(v) ==
  CASE v.type = "NoneType" -> FALSE
    [] v.type = "bool" -> v.bool
    [] OTHER -> v.list # <<>> \/ v.str # ""

\* a or b
PyOr(a, b) == IF Truthy(a) THEN a ELSE b

\* The characters of the texts the command lines are made of.
t_pattern == <<"H", "e", "l", "l", "o", "/", "*">>
t_id1 == <<"i", "d", "1">>
t_id2 == <<"i", "d", "2">>
t_ids == t_id1 \o <<",">> \o t_id2
t_option == <<"q", "t", "=", "1">>
t_bad_option == <<"q", "t">>
t_query == <<"o", "s", "=", "W">>

\* str.split(sep) for a separator of one character.
RECURSIVE split(_, _)
split(s, sep) ==
  IF \A i \in 1..Len(s) : s[i] # sep THEN <<s>>
  ELSE LET i == CHOOSE k \in 1..Len(s) :
                  s[k] = sep /\ \A j \in 1..(k - 1) : s[j] # sep
       IN <<SubSeq(s, 1, i - 1)>> \o split(SubSeq(s, i + 1, Len(s)), sep)

\* ConanFileReference.loads(text): name/version@user/channel, four parts
\* none of which is empty; anything else raises ConanException.
ConanFileReference_loads(text) ==
  LET tokens == split(text, "@")
      nv == IF Len(tokens) = 2 THEN split(tokens[1], "/") ELSE <<>>
      uc == IF Len(tokens) = 2 THEN split(tokens[2], "/") ELSE <<>>
  IN IF /\ Len(nv) = 2 /\ Len(uc) = 2
        /\ nv[1] # <<>> /\ nv[2] # <<>> /\ uc[1] # <<>> /\ uc[2] # <<>>
     THEN [type |-> "ConanFileReference", name |-> nv[1], version |-> nv[2],
           user |-> uc[1], channel |-> uc[2]]
     ELSE [type |-> "ConanException", name |-> <<>>, version |-> <<>>,
           user |-> <<>>, channel |-> <<>>]

\* is_a_reference(text): whether ConanFileReference.loads accepts it.
is_a_reference(text) ==
  ConanFileReference_loads(text).type = "ConanFileReference"

\* What a call of a collaborator (the manager, the loader, the file system)
\* can do: return, or raise one of the exceptions Command.run tells apart.
Outcomes ==
  {"ok", "ConanException", "KeyboardInterrupt", "SystemExit", "Exception"}

\* What a command method did: the calls it made (the last one raised
\* unless its outcome is "ok") and the exception it left with.
Returned(made) == [raised |-> None, calls |-> made]
Raised(exc, made) == [raised |-> exc, calls |-> made]
Called(call, o) ==
  IF o = "ok" THEN Returned(<<[call EXCEPT !.outcome = o]>>)
  ELSE Raised(o, <<[call EXCEPT !.outcome = o]>>)

\* _get_tuples_list_from_extender_arg(items): every item must be
\* name=value, one "=" exactly.
tuples_list_ok(items) ==
  \/ ~Truthy(items)
  \/ \A i \in 1..Len(items.list) : Len(split(items.list[i], "=")) = 2

\* ----------------------------------------------------------- conan install
\* The parsed arguments of install the model draws from: the reference
\* (absent: the empty str), -p (None or the collected ids), --all, the three
\* manifest options (None when absent, the default folder when given with
\* no value, the empty str when given an empty value), -o and --build.
InstallNamespaces ==
  [reference : {<<>>, reference_str, <<".">>},
   package : {PyNone, PyList(<<t_id1>>)},
   all : BOOLEAN,
   manifests : {PyNone, PyText(<<>>), PyStr(DEFAULT_MANIFEST_FOLDER)},
   manifests_interactive :
     {PyNone, PyText(<<>>), PyStr(DEFAULT_MANIFEST_FOLDER)},
   verify : {PyNone, PyText(<<>>), PyStr(DEFAULT_MANIFEST_FOLDER)},
   options : {PyNone, PyList(<<t_option>>), PyList(<<t_bad_option>>)},
   build : {PyNone, PyList(<<s_missing>>)}]

\* install, lines 405-409: the reference argument parsed, or taken as a
\* path below the current folder.
install_reference(a) ==
  LET ref == ConanFileReference_loads(a.reference)
  IN IF ref.type = "ConanFileReference" THEN ref
     ELSE [type |-> "path", name |-> a.reference, version |-> <<>>,
           user |-> <<>>, channel |-> <<>>]

\* Mutant: --all leaves the ids of -p in place.
install_package_ids_keep(a) == a.package

\* install, lines 412-413: --all replaces the ids by the empty list.
install_package_ids(a) == IF a.all THEN PyList(<<>>) ELSE a.package

\* Mutant: the three manifest options are never in conflict.
install_manifests_conflict_never(a) == FALSE

\* install, lines 426-431: the two conflicts that raise ConanException.
install_manifests_conflict(a) ==
  \/ Truthy(a.manifests) /\ Truthy(a.manifests_interactive)
  \/ Truthy(a.verify)
       /\ (Truthy(a.manifests) \/ Truthy(a.manifests_interactive))

\* install, lines 432-442: the manifest folder and the two flags.
install_manifest_args(a) ==
  LET folder == PyOr(a.verify, PyOr(a.manifests, a.manifests_interactive))
  IN IF Truthy(folder)
     THEN [manifest_folder |-> folder,
           manifest_verify |-> a.verify # PyNone,
           manifest_interactive |-> a.manifests_interactive # PyNone]
     ELSE [manifest_folder |-> folder, manifest_verify |-> FALSE,
           manifest_interactive |-> FALSE]

\* Command.install after parse_args; o is what the manager call does.
Command_install(a, o) ==
  IF a.all \/ Truthy(a.package)
  THEN IF a.reference = <<>>
          \/ install_reference(a).type # "ConanFileReference"
       THEN Raised("ConanException", <<>>)
       ELSE Called([op |-> "download", reference |-> install_reference(a),
                    package_ids |-> install_package_ids(a), outcome |-> o], o)
  ELSE IF ~tuples_list_ok(a.options) THEN Raised("ConanException", <<>>)
  ELSE IF install_manifests_conflict(a) THEN Raised("ConanException", <<>>)
  ELSE Called([op |-> "install", reference |-> install_reference(a),
               build_mode |-> _get_build_sources_parameter(a.build),
               manifest_folder |-> install_manifest_args(a).manifest_folder,
               manifest_verify |-> install_manifest_args(a).manifest_verify,
               manifest_interactive |->
                 install_manifest_args(a).manifest_interactive,
               outcome |-> o], o)

\* ------------------------------------------------------------ conan remove
\* -p and -b of remove: None when absent, the empty list (const=[]) when
\* given without a value, otherwise the str given, which may be empty.
IdValues ==
  {PyNone, PyList(<<>>), PyText(<<>>), PyText(t_id1), PyText(t_ids)}

RemoveNamespaces ==
  [pattern : {t_pattern}, packages : IdValues, builds : IdValues,
   src : BOOLEAN]

\* Mutant: the ids are forwarded as one str.
remove_ids_unsplit(value) == value

\* remove, lines 695-698: a value that is true is split at the commas.
remove_ids(value) ==
  IF Truthy(value) THEN PyList(split(value.list, ",")) ELSE value

Command_remove(a, o) ==
  Called([op |-> "remove", pattern |-> a.pattern,
          package_ids_filter |-> remove_ids(a.packages),
          build_ids |-> remove_ids(a.builds), src |-> a.src,
          outcome |-> o], o)

\* ------------------------------------------------------------ conan upload
DEFAULT_RETRY == 2
DEFAULT_RETRY_WAIT == 5

\* --retry and --retry_wait as given: no value or one.
UploadNamespaces ==
  [pattern : {reference_str, t_pattern},
   package : {PyNone, PyText(<<>>), PyText(t_id1)},
   retry : {<<>>, <<0>>, <<3>>}, retry_wait : {<<>>, <<0>>, <<3>>}]

\* argparse: an option that is not given takes its default.
with_default(given, default) == IF given = <<>> THEN default ELSE given[1]

\* Mutant: the retry count is always the default.
upload_retry_default(a) == DEFAULT_RETRY

upload_retry(a) == with_default(a.retry, DEFAULT_RETRY)

Command_upload(a, o) ==
  IF Truthy(a.package) /\ ~is_a_reference(a.pattern)
  THEN Raised("ConanException", <<>>)
  ELSE Called([op |-> "upload", pattern |-> a.pattern, package |-> a.package,
               retry |-> upload_retry(a),
               retry_wait |-> with_default(a.retry_wait, DEFAULT_RETRY_WAIT),
               outcome |-> o], o)

\* ------------------------------------------------------------ conan search
SearchNamespaces ==
  [pattern : {PyNone, PyText(<<>>), PyText(reference_str), PyText(t_pattern)},
   query : {PyNone, PyText(<<>>), PyText(t_query)},
   case_sensitive : BOOLEAN]

\* search, lines 781-789: the pattern parsed when there is one; a pattern
\* that is no reference is kept as it is, unless -q was given.
search_reference(a) ==
  IF Truthy(a.pattern) THEN ConanFileReference_loads(a.pattern.list)
  ELSE [type |-> "NoneType", name |-> <<>>, version |-> <<>>,
        user |-> <<>>, channel |-> <<>>]

search_rejects(a) ==
  search_reference(a).type = "ConanException" /\ a.query # PyNone

Command_search(a, o) ==
  IF search_rejects(a) THEN Raised("ConanException", <<>>)
  ELSE Called([op |-> "search",
               reference |-> IF search_reference(a).type = "ConanFileReference"
                             THEN search_reference(a)
                             ELSE [type |-> "pattern", value |-> a.pattern],
               ignorecase |-> ~a.case_sensitive,
               packages_query |-> a.query, outcome |-> o], o)

\* ------------------------------------------------------ conan test_package
\* What a run of test_package depends on: whether a test folder with a
\* conanfile.py is found, the names of the requirements of the test
\* conanfile, --not-export, -o and --build.
TestPackageNamespaces ==
  [folder_found : BOOLEAN,
   requires : {<<>>, <<s_Hello>>},
   not_export : BOOLEAN,
   options : {PyNone, PyList(<<t_bad_option>>)},
   build : {PyNone, PyList(<<>>), PyList(<<s_never>>), PyList(<<s_missing>>),
            PyList(<<s_Bye>>)}]

\* Mutant: the build mode is always what --build resolves to.
test_package_build_mode_resolved(a) == _get_build_sources_parameter(a.build)

\* test_package, lines 322-327: with no --build the tested library is
\* built, otherwise the mode is the one --build resolves to.
test_package_build_mode(a) ==
  LET lib_to_test == a.requires[1] \o s_star
  IN IF a.build = PyNone /\ lib_to_test # <<>>
     THEN PyList(<<lib_to_test>>)
     ELSE _get_build_sources_parameter(a.build)

\* Mutant: the test project is built before the install.
test_package_after_build_first(step, a) ==
  CASE step = "rmdir" -> "load"
    [] step = "load" -> IF a.not_export THEN "build" ELSE "export"
    [] step = "export" -> "build"
    [] step = "build" -> "install"
    [] step = "install" -> "returned"

\* The step of test_package that follows a step that returned.
test_package_after(step, a) ==
  CASE step = "rmdir" -> "load"
    [] step = "load" -> IF a.not_export THEN "install" ELSE "export"
    [] step = "export" -> "install"
    [] step = "install" -> "build"
    [] step = "build" -> "returned"

\* ------------------------------------------------------------- Command.run
\* The names of the members of Command the command lines mention, with the
\* beginning of their docstrings.
m_install == <<"i", "n", "s", "t", "a", "l", "l">>
m_test_package == <<"t", "e", "s", "t", "_", "p", "a", "c", "k", "a", "g", "e">>
m_remove == <<"r", "e", "m", "o", "v", "e">>
m_upload == <<"u", "p", "l", "o", "a", "d">>
m_search == <<"s", "e", "a", "r", "c", "h">>
m_export == <<"e", "x", "p", "o", "r", "t">>
m_run == <<"r", "u", "n">>
m__commands == <<"_", "c", "o", "m", "m", "a", "n", "d", "s">>
o_version == <<"-", "v">>
o_help == <<"-", "h">>
HIDDEN == <<"H", "I", "D", "D", "E", "N">>

Members ==
  {[name |-> m_install, doc |-> <<"I", "n", "s", "t", "a", "l", "l", "s">>],
   [name |-> m_test_package, doc |-> <<" ", "E", "x", "p", "o", "r", "t">>],
   [name |-> m_remove, doc |-> <<"R", "e", "m", "o", "v", "e">>],
   [name |-> m_upload, doc |-> <<" ", "U", "p", "l", "o", "a", "d", "s">>],
   [name |-> m_search, doc |-> <<" ", "S", "e", "a", "r", "c", "h">>],
   [name |-> m_export, doc |-> <<" ", "C", "o", "p", "i", "e", "s">>],
   [name |-> m_run, doc |-> HIDDEN \o <<":">>],
   [name |-> m__commands, doc |-> <<" ", "r", "e", "t", "u", "r", "n", "s">>]}

\* str.startswith(prefix)
startswith(s, prefix) ==
  Len(s) >= Len(prefix) /\ SubSeq(s, 1, Len(prefix)) = prefix

\* Mutant: hidden methods are commands too.
_commands_with_hidden ==
  {m.name : m \in {x \in Members : ~startswith(x.name, <<"_">>) /\ x.doc # <<>>}}

\* Command._commands: the methods whose name does not start with "_" and
\* whose docstring does not start with HIDDEN.
_commands ==
  {m.name : m \in {x \in Members : /\ ~startswith(x.name, <<"_">>)
                                   /\ x.doc # <<>>
                                   /\ ~startswith(x.doc, HIDDEN)}}

\* Command.run, lines 960-966: the exceptions that make run return True.
run_reports(exc) ==
  exc \in {"KeyboardInterrupt", "SystemExit", "ConanException"}

\* Command.run, lines 944-959: the command is looked up.  No parameter at
\* all shows the help; a name that is no command is the version or help
\* option, or raises ConanException after the help was shown.
Dispatch(line) ==
  /\ pc = "idle"
  /\ argv' = line
  /\ calls' = <<>>
  /\ IF line.words = <<>>
     THEN raised' = None /\ errors' = PyBool(FALSE) /\ pc' = "done"
     ELSE IF line.words[1] \in _commands
       THEN raised' = None /\ errors' = PyNone /\ pc' = "method"
     ELSE IF line.words[1] \in {o_version, o_help}
       THEN raised' = None /\ errors' = PyBool(FALSE) /\ pc' = "done"
     ELSE raised' = "ConanException" /\ errors' = PyNone /\ pc' = "except"
  /\ UNCHANGED <<mode, clock, cache, servers, last, user, scenario, commands,
                 args, down>>

\* The command lines: no parameter, an option or a name that may be a
\* command, and the commands with their arguments; help says that -h is
\* among them.
Line(words, help, a) == [words |-> words, help |-> help, args |-> a]

Start ==
  \/ \E w \in {<<>>, <<o_version>>, <<o_help>>, <<m_run>>, <<m__commands>>} :
       Dispatch(Line(w, FALSE, PyNone))
  \/ \E m \in {x.name : x \in Members} : Dispatch(Line(<<m>>, TRUE, PyNone))
  \/ Dispatch(Line(<<m_export>>, FALSE, PyNone))
  \/ \E a \in InstallNamespaces : Dispatch(Line(<<m_install>>, FALSE, a))
  \/ \E a \in TestPackageNamespaces :
       Dispatch(Line(<<m_test_package>>, FALSE, a))
  \/ \E a \in RemoveNamespaces : Dispatch(Line(<<m_remove>>, FALSE, a))
  \/ \E a \in UploadNamespaces : Dispatch(Line(<<m_upload>>, FALSE, a))
  \/ \E a \in SearchNamespaces : Dispatch(Line(<<m_search>>, FALSE, a))

\* The method leaves with what it did.
Leave(r, next) ==
  /\ calls' = calls \o r.calls
  /\ raised' = r.raised
  /\ pc' = IF r.raised = None THEN next ELSE "except"
  /\ UNCHANGED <<mode, clock, cache, servers, last, user, scenario, commands,
                 args, down, argv, errors>>

\* parser.parse_args: -h prints the help and exits.
Help ==
  /\ pc = "method"
  /\ argv.help
  /\ Leave(Raised("SystemExit", <<>>), "returned")

Method(name) == pc = "method" /\ ~argv.help /\ argv.words[1] = name

install == Method(m_install) /\ \E o \in Outcomes :
  Leave(Command_install(argv.args, o), "returned")

remove == Method(m_remove) /\ \E o \in Outcomes :
  Leave(Command_remove(argv.args, o), "returned")

upload == Method(m_upload) /\ \E o \in Outcomes :
  Leave(Command_upload(argv.args, o), "returned")

search == Method(m_search) /\ \E o \in Outcomes :
  Leave(Command_search(argv.args, o), "returned")

\* A command the model does not look into: it calls its collaborator once.
export_ == Method(m_export) /\ \E o \in Outcomes :
  Leave(Called([op |-> "export", outcome |-> o], o), "returned")

\* test_package, lines 254-282: the test folder is looked for and its build
\* folder removed.
test_package_rmdir ==
  /\ Method(m_test_package)
  /\ \E o \in Outcomes :
       Leave(IF ~argv.args.folder_found THEN Raised("ConanException", <<>>)
             ELSE Called([op |-> "rmdir", outcome |-> o], o),
             test_package_after("rmdir", argv.args))

\* test_package, lines 285-314: the options are parsed, the test conanfile
\* is loaded and its first requirement taken.
test_package_load ==
  /\ pc = "load"
  /\ \E o \in Outcomes :
       Leave(IF ~tuples_list_ok(argv.args.options)
             THEN Raised("ConanException", <<>>)
             ELSE IF o = "ok" /\ argv.args.requires = <<>>
               THEN Raised("ConanException",
                           <<[op |-> "load_conan", outcome |-> o]>>)
             ELSE Called([op |-> "load_conan", outcome |-> o], o),
             test_package_after("load", argv.args))

\* test_package, lines 317-320
test_package_export ==
  /\ pc = "export"
  /\ \E o \in Outcomes :
       Leave(Called([op |-> "export", outcome |-> o], o),
             test_package_after("export", argv.args))

\* test_package, lines 322-342
test_package_install ==
  /\ pc = "install"
  /\ \E o \in Outcomes :
       Leave(Called([op |-> "install",
                     build_mode |-> test_package_build_mode(argv.args),
                     outcome |-> o], o),
             test_package_after("install", argv.args))

\* test_package, lines 343-345: _test_check raises when the test conanfile
\* is gone, then the test project is built.
test_package_build ==
  /\ pc = "build"
  /\ \E found \in BOOLEAN, o \in Outcomes :
       Leave(IF ~found THEN Raised("ConanException", <<>>)
             ELSE Called([op |-> "build", outcome |-> o], o),
             test_package_after("build", argv.args))

\* Command.run, lines 960-981: what run returns, or the exception it lets
\* through.
Return ==
  /\ pc \in {"returned", "except"}
  /\ IF raised = None
     THEN errors' = PyBool(FALSE) /\ raised' = None /\ pc' = "done"
     ELSE IF run_reports(raised)
       THEN errors' = PyBool(TRUE) /\ raised' = None /\ pc' = "done"
     ELSE errors' = errors /\ raised' = raised /\ pc' = "propagated"
  /\ UNCHANGED <<mode, clock, cache, servers, last, user, scenario, commands,
                 args, down, argv, calls>>

NextCommand ==
  \/ Start
  \/ Help
  \/ install
  \/ remove
  \/ upload
  \/ search
  \/ export_
  \/ test_package_rmdir
  \/ test_package_load
  \/ test_package_export
  \/ test_package_install
  \/ test_package_build
  \/ Return

\* One command line; the cache plays no part.
SpecCommand == Init /\ [][NextCommand]_vars


\* ==================================================== concurrent downloads
\* Two callers download the package of the reference from the remote that
\* holds it at the same time.  A download writes the files into a staging
\* folder of its own and then moves the staging folder to the package
\* folder in one step, unless the package folder is already there.  The
\* first remote holds the package.
\* The package the remote holds: the one built from the sources with
\* hello.h of content h and uploaded.
remote_package(m, h) ==
  upload_package(
    create_package(m, [exists |-> TRUE, files |-> Workspace(h), runs |-> 1],
                   FileTreeManifest(1, Workspace(h), {}), 1))

\* The package folder a complete download gives.
downloaded == download_package(servers[Remotes[1]].package)

InitDownload ==
  /\ mode \in Modes
  /\ clock = 1
  /\ export = NoExport
  /\ source = NoSource
  /\ package = NoPackage
  /\ registry = Remotes[1]
  /\ \E h \in Contents :
       servers = [rm \in RemoteNames |->
                    [recipe |-> NoRecipe,
                     package |-> IF rm = Remotes[1]
                                 THEN remote_package(mode, h)
                                 ELSE NoServerPackage]]
  /\ last = NoLast
  /\ manifests = NoManifests
  /\ copied = NoExport
  /\ scenario = Off
  /\ commands = 0
  /\ build_param = PyNone
  /\ build_mode = PyBool(FALSE)
  /\ argv = NoArgv
  /\ calls = <<>>
  /\ raised = None
  /\ errors = PyNone
  /\ pc = "idle"
  /\ down = NoDownloads

\* Mutant: the files are written into the package folder as they arrive.
package_while_fetching_in_place(pkg, staging) == staging

\* The package folder while a download is under way: untouched, the files
\* are in the staging folder.
package_while_fetching(pkg, staging) == pkg

\* A caller starts: a package folder that is there is taken as it is,
\* otherwise the download begins with an empty staging folder.
Begin(c) ==
  /\ down[c].pc = "idle"
  /\ IF package.exists
     THEN down' = [down EXCEPT ![c].pc = "done", ![c].seen = package]
     ELSE down' = [down EXCEPT ![c].pc = "fetching",
                               ![c].staging =
                                 [downloaded EXCEPT !.files = {}]]
  /\ UNCHANGED <<mode, clock, cache, servers, last, user, scenario, commands,
                 args, cli>>

\* One more file of the package arrives.
Fetch(c) ==
  /\ down[c].pc = "fetching"
  /\ \E f \in downloaded.files \ down[c].staging.files :
       \E staging \in {[down[c].staging EXCEPT !.files = @ \cup {f}]} :
         /\ down' = [down EXCEPT
                       ![c].staging = staging,
                       ![c].pc = IF staging.files = downloaded.files
                                 THEN "fetched" ELSE "fetching"]
         /\ package' = package_while_fetching(package, staging)
  /\ UNCHANGED <<mode, clock, export, source, registry, servers, last, user,
                 scenario, commands, args, cli>>

\* The staging folder becomes the package folder in one step; the caller
\* that comes second finds the package folder and drops its own copy.
Publish(c) ==
  /\ down[c].pc = "fetched"
  /\ package' = IF package.exists THEN package ELSE down[c].staging
  /\ down' = [down EXCEPT ![c].pc = "done", ![c].staging = NoPackage,
                          ![c].seen = package']
  /\ UNCHANGED <<mode, clock, export, source, registry, servers, last, user,
                 scenario, commands, args, cli>>

Download(c) == Begin(c) \/ Fetch(c) \/ Publish(c)

NextDownload == \E c \in Callers : Download(c)

\* Each caller is a thread of its own that keeps running.
SpecDownload ==
  InitDownload /\ [][NextDownload]_vars /\ \A c \in Callers : WF_vars(Download(c))


\* =================================================================== claims
\* What the test expects in the export folder right after an install from a
\* remote (_check_export_installed_folder).
expected_exports_installed(m) ==
  CASE m = "exports_sources" -> {CONANFILE, CONAN_MANIFEST}
    [] m = "both" -> {CONANFILE, CONAN_MANIFEST, "data.txt"}
    [] m = "exports" -> {CONANFILE, CONAN_MANIFEST, "hello.h"}

\* What the test expects in the package folder (_check_package_folder).
expected_package(m) ==
  {CONANINFO, CONAN_MANIFEST, "include/hello.h"}
  \cup (IF m = "both" THEN {"docs/data.txt"} ELSE {})

\* C1: after export, install --build=missing (which builds the package),
\* upload --all, remove -f and install, run in this order on a fresh client,
\* the cache holds the export folder again (recipe, manifest and exported
\* files, with the manifest of the original export), the package folder
\* holds the files of the package that was built, and there is no source
\* folder.
C1_ExportInstallRoundTrip ==
  /\ scenario \in {2, 3} =>
       /\ last.ok
       /\ package.exists
       /\ Names(package.files) = expected_package(mode)
  /\ scenario = 3 => servers[Remotes[1]].package = upload_package(package)
  /\ scenario = 4 => ~export.exists /\ ~package.exists
  /\ scenario = 5 =>
       /\ last.ok
       /\ export.exists
       /\ ExportListing(export) = expected_exports_installed(mode)
       /\ export.manifest = servers[Remotes[1]].recipe.manifest
       /\ package.exists
       /\ Names(package.files) = expected_package(mode)
       /\ package = download_package(servers[Remotes[1]].package)
       /\ ~source.exists

C1_Witness ==
  /\ scenario = 5
  /\ last.op = "install"
  /\ last.outcome = "Download"
  /\ package.exists

\* C2: a package that install downloaded came from the remote recorded for
\* the recipe, which holds it; and when that remote does not hold the
\* package, install leaves the cache without it unless it builds it, even
\* if another remote has it.
C2_BinaryFromRecipeRemote ==
  last.op = "install" =>
    /\ last.outcome = "Download" =>
         /\ registry # None
         /\ last.from = registry
         /\ servers[registry].package.exists
         /\ package = download_package(servers[registry].package)
    /\ (/\ last.recipe \notin {"notfound", "rejected"}
        /\ last.local = "absent"
        /\ registry # None => ~servers[registry].package.exists)
       => last.outcome \in {"Build", "MissingBinary"}

C2_Witness ==
  /\ last.op = "install"
  /\ last.outcome = "MissingBinary"
  /\ registry = "other"
  /\ ~servers["other"].package.exists
  /\ servers["default"].package.exists
  /\ ~package.exists

\* C3: an install with no --build, or with --build=never, that finds the
\* recipe but the package neither in the cache nor on the recipe's remote,
\* fails with the missing-binary error and builds nothing: no package, no
\* source folder, no exported sources appear.
C3_NeverModeMissingBinary ==
  [][(/\ last'.op = "install"
      /\ last'.raw \in {"absent", "never"}
      /\ last'.recipe \notin {"notfound", "rejected"}
      /\ ~package.exists
      /\ registry' # None => ~servers[registry'].package.exists)
     => /\ last'.outcome = "MissingBinary"
        /\ ~last'.ok
        /\ package' = package
        /\ source' = source
        /\ export'.src_exists => export.src_exists]_vars

C3_Witness ==
  /\ last.op = "install"
  /\ last.raw \in {"absent", "never"}
  /\ last.outcome = "MissingBinary"
  /\ export.exists
  /\ ~package.exists


\* C4: when the reference matches a force-build pattern (--build with no
\* value always does, its pattern being "*"), install builds the package,
\* whether or not a package is in the cache or on the remote; when patterns
\* are given and none matches, install does not build.
C4_ForcedPatternsBuild ==
  (last.op = "install" /\ last.recipe \notin {"notfound", "rejected"}) =>
    /\ last.raw = "empty" => last.mode = "patterns" /\ last.forced
    /\ last.forced =>
         /\ last.outcome = "Build"
         /\ package.exists
         /\ ~package_outdated(package, export.manifest)
    /\ (last.mode = "patterns" /\ ~last.forced) => last.outcome # "Build"

C4_Witness ==
  /\ last.op = "install"
  /\ last.raw = "empty"
  /\ last.forced
  /\ last.outcome = "Build"
  /\ last.local = "fresh"
  /\ registry # None
  /\ servers[registry].package.exists

\* C5: under --build=outdated, a package that is in the cache but whose
\* recorded recipe fingerprint is not the one of the current recipe manifest
\* (the recipe was exported again with another content) is built again, not
\* reused, and the new package records the current fingerprint.
C5_OutdatedRebuilds ==
  [][(/\ last'.op = "install"
      /\ last'.raw = "outdated"
      /\ last'.recipe \notin {"notfound", "rejected"}
      /\ package.exists
      /\ package_outdated(package, export'.manifest))
     => /\ last'.outcome = "Build"
        /\ package'.exists
        /\ package'.recipe_hash = export'.manifest.file_sums]_vars

C5_Witness ==
  /\ last.op = "install"
  /\ last.raw = "outdated"
  /\ last.local = "stale"
  /\ last.outcome = "Build"
  /\ clock = 2
  /\ package.recipe_hash = export.manifest.file_sums

\* C6: _get_build_sources_parameter returns False for an absent option,
\* ["*"] for the empty list, False for exactly ["never"], True for exactly
\* ["missing"], "outdated" for exactly ["outdated"], and for any other list
\* the list of its items, each followed by "*".
expected_build_mode(param) ==
  CASE param = PyNone -> PyBool(FALSE)
    [] param = PyList(<<>>) -> PyList(<< <<"*">> >>)
    [] param = PyList(<< s_never >>) -> PyBool(FALSE)
    [] param = PyList(<< s_missing >>) -> PyBool(TRUE)
    [] param = PyList(<< s_outdated >>) -> PyStr("outdated")
    [] OTHER -> PyList([i \in 1..Len(param.list) |-> param.list[i] \o <<"*">>])

C6_BuildModeResolution ==
  last.op = "build_param" => build_mode = expected_build_mode(build_param)

C6_Witness ==
  /\ last.op = "build_param"
  /\ build_param = PyList(<<s_never, s_missing>>)
  /\ build_mode.type = "list"
  /\ Len(build_mode.list) = 2


\* The recipe in the cache is the one its remote holds: an upload of it to
\* that remote, without --force, is a second upload of an unchanged recipe.
Reupload ==
  /\ last'.op = "upload"
  /\ ~last'.force
  /\ export.exists
  /\ registry # None
  /\ last'.to = registry
  /\ servers[registry].recipe.exists
  /\ servers[registry].recipe.manifest = export.manifest

PlainUpdate ==
  /\ last'.op = "install"
  /\ last'.update
  /\ last'.raw \in {"absent", "never"}
  /\ export.exists
  /\ registry # None

\* C8: install --update of a recipe whose remote holds no recipe manifest
\* strictly newer than the local one reports the recipe as installed and
\* leaves the export folder as it was.
C8_UpdateWithoutNewerRecipe ==
  [][(/\ PlainUpdate
      /\ ~(/\ servers[registry].recipe.exists
           /\ servers[registry].recipe.manifest.time > export.manifest.time))
     => /\ last'.recipe = "installed"
        /\ export' = export
        /\ registry' = registry]_vars

C8_Witness ==
  /\ last.op = "install"
  /\ last.update
  /\ last.raw = "absent"
  /\ last.recipe = "installed"
  /\ last.check = -1
  /\ registry # None
  /\ servers[registry].recipe.manifest.time <= export.manifest.time
  /\ servers[registry].recipe.manifest.file_sums # export.manifest.file_sums

\* C9: the update check of install --update reports no update when the
\* remote manifest lists the same checksums as the local one, whatever the
\* times; it reports an update exactly when the checksums differ and the
\* remote time is strictly greater, and only then is the recipe replaced.
C9_UpdateCheck ==
  [][(/\ last'.op = "install"
      /\ last'.update
      /\ export.exists
      /\ registry # None
      /\ servers[registry].recipe.exists)
     => LET remote == servers[registry].recipe.manifest
            same == remote.file_sums = export.manifest.file_sums
            newer == remote.time > export.manifest.time
        IN /\ same => last'.check = 0
           /\ (last'.check = 1) <=> (~same /\ newer)
           /\ (last'.recipe = "updated") <=> (last'.check = 1)
           /\ last'.check # 1 => export'.manifest = export.manifest]_vars

C9_Witness ==
  /\ last.op = "install"
  /\ last.update
  /\ last.check = 0
  /\ last.recipe = "installed"
  /\ registry # None
  /\ servers[registry].recipe.manifest.file_sums = export.manifest.file_sums
  /\ servers[registry].recipe.manifest.time > export.manifest.time

\* C10: install --update, when the remote recipe manifest is strictly newer
\* and lists other checksums (a file was added on the server), replaces the
\* local export by the remote recipe, the added file included, and leaves
\* the cache without an export_sources folder.
C10_UpdateReplacesExport ==
  [][(/\ PlainUpdate
      /\ servers[registry].recipe.exists
      /\ servers[registry].recipe.manifest.time > export.manifest.time
      /\ servers[registry].recipe.manifest.file_sums # export.manifest.file_sums)
     => LET remote == servers[registry].recipe
        IN /\ last'.recipe = "updated"
           /\ export'.exists
           /\ export'.manifest = remote.manifest
           /\ remote.files \subseteq export'.files
           /\ export'.files = remote.files \cup remote.export_tgz.files
           /\ ~export'.src_exists
           /\ EXPORT_SOURCES_DIR \notin ExportListing(export')]_vars

C10_Witness ==
  /\ last.op = "install"
  /\ last.update
  /\ last.raw = "absent"
  /\ last.recipe = "updated"
  /\ LICENSE \in export.files
  /\ "license.txt" \in ExportListing(export)
  /\ ~export.src_exists
  /\ export.manifest = servers[registry].recipe.manifest


\* C11 as stated: an existing source folder is destroyed only by source
\* --force or by a remove; export, install, upload and copy leave it.
C11_SourceDestroyedOnlyByForce ==
  [][(source.exists /\ source' # source)
     => \/ last'.op = "source" /\ last'.force
        \/ last'.op = "remove"]_vars

\* C11 (amended): an existing source folder is destroyed only by source
\* --force, by a remove of the whole cache entry or with -s, and by an export
\* without --keep-source; install, upload, copy, source without --force,
\* remove -p and export --keep-source leave it as it is.
C11_SourceDestroyedByExportToo ==
  [][(source.exists /\ source' # source)
     => \/ last'.op = "source" /\ last'.force
        \/ last'.op = "remove" /\ (last'.whole \/ last'.src)
        \/ last'.op = "export" /\ ~last'.keep]_vars

\* The third command, a second export, after a build: the build left a
\* source folder, the export removed it.
C11_Witness ==
  /\ last.op = "export"
  /\ ~last.keep
  /\ commands = 3
  /\ clock = 2
  /\ package.exists
  /\ ~source.exists

\* C12: source without --force on a reference whose source folder is
\* populated does nothing, and neither source without --force nor install
\* runs the source stage in a populated folder: the source stage runs once
\* in a source folder.
C12_SourceStageRunsOnce ==
  [][/\ (last'.op = "source" /\ ~last'.force /\ source.exists)
          => /\ ~last'.sourced
             /\ cache' = cache
     /\ (last'.op \in {"source", "install"} /\ ~last'.force /\ source.exists)
          => source' = source
     /\ source'.runs <= 1]_vars

C12_Witness ==
  /\ last.op = "source"
  /\ last.ok
  /\ ~last.force
  /\ ~last.sourced
  /\ source.exists
  /\ source.runs = 1


\* C13: a source folder appears only with a build from sources or with the
\* source command, which ran the source stage; upload, copy and an install
\* that does not build (plain, --update, --manifests, --verify) leave the source
\* folder as it is, and the removal of the cache entry leaves none.
C13_SourceOnlyFromBuild ==
  [][/\ (~source.exists /\ source'.exists)
          => /\ last'.sourced
             /\ \/ last'.op = "source"
                \/ last'.op = "install" /\ last'.outcome = "Build"
     /\ (\/ last'.op \in {"upload", "copy"}
         \/ last'.op = "install" /\ last'.outcome # "Build")
          => source' = source
     /\ (last'.op = "remove" /\ last'.whole) => ~source'.exists]_vars

C13_Witness ==
  /\ last.op = "install"
  /\ last.manifests
  /\ last.fetched
  /\ last.outcome = "Download"
  /\ export.src_exists
  /\ ~source.exists

\* The manifest entries of the exported sources of a recipe.
manifest_sources(manifest) ==
  {x \in manifest.file_sums : x.dir = EXPORT_SOURCES_DIR}

\* C14: an install with no manifest folder that retrieves the recipe from a
\* remote and does not build leaves in the export folder the recipe file,
\* the manifest and the exported files, as the remote holds them, and no
\* export_sources folder, although the manifest lists the exported sources.
C14_InstallLeavesSourcesOnRemote ==
  [][(/\ last'.op = "install"
      /\ last'.recipe = "retrieved"
      /\ ~last'.manifests
      /\ last'.outcome # "Build")
     => /\ export'.exists
        /\ ExportListing(export') = expected_exports_installed(mode)
        /\ export'.manifest = servers[registry'].recipe.manifest
        /\ ~export'.src_exists
        /\ export'.src_files = {}
        /\ ~last'.fetched]_vars

C14_Witness ==
  /\ last.op = "install"
  /\ last.recipe = "retrieved"
  /\ ~last.manifests
  /\ last.outcome = "MissingBinary"
  /\ ~export.src_exists
  /\ manifest_sources(export.manifest) # {}
  /\ servers[registry].recipe.sources_tgz.exists

\* C15: after an operation that needs the exported sources (an install that
\* builds, an install with --manifests or --verify, a copy, an upload to a
\* remote other than the recipe's), the export folder has the folder of the
\* exported sources, and its files are exactly the ones the recipe manifest
\* lists; when the folder was missing, its files were fetched from the
\* recipe's remote.
C15_SourcesFetchedWhenNeeded ==
  [][(\/ /\ last'.op = "install"
         /\ last'.recipe \in {"installed", "retrieved", "rejected"}
         /\ last'.outcome = "Build" \/ last'.manifests
      \/ last'.op = "copy" /\ last'.ok
      \/ last'.op = "upload" /\ last'.ok /\ last'.to # registry)
     => /\ export'.src_exists
        /\ Sums(EXPORT_SOURCES_DIR, export'.src_files)
             = manifest_sources(export'.manifest)
        /\ last'.fetched
             => /\ registry' # None
                /\ export'.src_files
                     = servers[IF registry = None THEN registry' ELSE registry]
                         .recipe.sources_tgz.files]_vars

C15_Witness ==
  /\ last.op = "copy"
  /\ last.ok
  /\ last.fetched
  /\ export.src_exists
  /\ export.src_files # {}
  /\ copied = export

\* The manifest entries of the exported files of a recipe, the recipe file
\* apart.
manifest_exports(manifest) ==
  {x \in manifest.file_sums : x.dir = "." /\ x.name # CONANFILE}

\* C16: after an upload that sent the recipe, or found it unchanged on a
\* server nobody edited, the export folder on the remote holds the recipe
\* file, the manifest, conan_export.tgz exactly when the recipe has exported
\* files besides the recipe file, conan_sources.tgz exactly when it has
\* exported sources, and nothing else: no exported file lies loose.
C16_ServerExportFolder ==
  [][(/\ last'.op = "upload"
      /\ last'.ok
      /\ last'.transfer \/ LICENSE \notin servers[last'.to].recipe.files)
     => LET remote == servers'[last'.to].recipe
        IN /\ ServerListing(remote)
                = {CONANFILE, CONAN_MANIFEST}
                  \cup (IF manifest_exports(export'.manifest) # {}
                        THEN {EXPORT_TGZ_NAME} ELSE {})
                  \cup (IF manifest_sources(export'.manifest) # {}
                        THEN {EXPORT_SOURCES_TGZ_NAME} ELSE {})
           /\ Names(remote.files) = {CONANFILE}
           /\ Sums(".", remote.export_tgz.files)
                = manifest_exports(remote.manifest)
           /\ Sums(EXPORT_SOURCES_DIR, remote.sources_tgz.files)
                = manifest_sources(remote.manifest)]_vars

C16_Witness ==
  /\ last.op = "upload"
  /\ last.ok
  /\ last.transfer
  /\ ~last.fetched
  /\ ~export.src_exists
  /\ LICENSE \in export.files
  /\ ServerListing(servers[last.to].recipe)
       = {CONANFILE, CONAN_MANIFEST, EXPORT_TGZ_NAME, EXPORT_SOURCES_TGZ_NAME}

C18_RemoveDestroysEntry ==
  [][(last'.op = "remove" /\ last'.whole)
     => /\ ~export'.exists
        /\ ExportListing(export') = {}
        /\ ~source'.exists
        /\ ~package'.exists
        /\ registry' = None]_vars

C18_Witness ==
  /\ last.op = "remove"
  /\ last.whole
  /\ last.ok
  /\ ~export.exists
  /\ manifests.recipe.exists
  /\ manifests.package.exists
  /\ copied.exists
  /\ servers[Remotes[1]].recipe.exists

\* C19: a successful install --manifests leaves stored the manifest of the
\* recipe, which lists every exported file and, under the export_sources
\* folder, every exported source with its checksum, and the manifest of the
\* package; after a remove -f of the entry, install --verify succeeds when
\* the remote still holds the recipe and the package with these manifests,
\* and leaves the stored manifests as they are.
C19_ManifestsSurviveRemoval ==
  [][/\ (/\ last'.op = "install"
         /\ last'.manifests
         /\ last'.ok)
          => /\ manifests'.recipe.exists
             /\ manifests'.package.exists
             /\ manifests'.recipe.manifest = export'.manifest
             /\ manifests'.recipe.manifest.file_sums
                  = Sums(".", export'.files)
                    \cup Sums(EXPORT_SOURCES_DIR, export'.src_files)
             /\ manifests'.package.manifest = package_manifest(package')
     /\ (/\ last'.op = "install"
         /\ last'.verify
         /\ last'.raw = "absent"
         /\ last'.recipe # "notfound"
         /\ ~export.exists
         /\ manifests.recipe.exists
         /\ manifests.package.exists
         /\ LET found == first_remote(Remotes, RemoteNames)
            IN /\ found # None
               /\ servers[found].recipe.manifest = manifests.recipe.manifest
               /\ servers[found].package.exists
               /\ package_manifest(download_package(servers[found].package))
                    = manifests.package.manifest)
          => /\ last'.ok
             /\ last'.outcome = "Download"
             /\ manifests' = manifests]_vars

C19_Witness ==
  /\ last.op = "install"
  /\ last.verify
  /\ last.ok
  /\ last.recipe = "retrieved"
  /\ last.outcome = "Download"
  /\ last.fetched
  /\ manifests.recipe.manifest = export.manifest
  /\ manifest_sources(manifests.recipe.manifest) # {}
  /\ manifest_exports(manifests.recipe.manifest) # {}


\* C21: with two downloads of the package under way in any interleaving,
\* the package folder is never there with files missing or with a manifest
\* that does not match its files, what a caller that is done has seen is
\* the package folder, and both callers get done.
C21_ConcurrentDownloads ==
  /\ [](/\ package.exists
             => /\ package.files = downloaded.files
                /\ package_manifest(package) = package_manifest(downloaded)
                /\ upload_package(package) = servers[Remotes[1]].package
        /\ \A c \in Callers :
             down[c].pc = "done" => package.exists /\ down[c].seen = package)
  /\ <>(\A c \in Callers : down[c].pc = "done")

C21_Witness ==
  /\ down["a"].pc = "done"
  /\ down["b"].pc = "done"
  /\ down["a"].seen = down["b"].seen
  /\ package.exists
  /\ CONAN_MANIFEST \in Names(package.files)


\* ------------------------------------------------ claims on the command layer
\* The command method has left (it returned or raised) and Command.run has
\* not yet handled that.
Left(name) ==
  /\ pc \in {"returned", "except"}
  /\ argv.words = <<name>>
  /\ ~argv.help

\* The operations of the calls made so far, in order.
Ops == [i \in 1..Len(calls) |-> calls[i].op]

\* C22: install with --all or -p never calls manager.install: without a
\* reference argument that parses it raises ConanException and calls
\* nothing, otherwise it calls manager.download once, with the ids of -p,
\* or with the empty list when --all is given (with or without -p).
C22_InstallByPackageIds ==
  (Left(m_install) /\ (argv.args.all \/ argv.args.package # PyNone))
    => IF argv.args.reference # reference_str
       THEN raised = "ConanException" /\ calls = <<>>
       ELSE /\ Ops = <<"download">>
            /\ calls[1].reference.type = "ConanFileReference"
            /\ calls[1].reference.name = s_Hello
            /\ calls[1].package_ids
                 = (IF argv.args.all THEN PyList(<<>>) ELSE PyList(<<t_id1>>))
            /\ raised = (IF calls[1].outcome = "ok" THEN None
                         ELSE calls[1].outcome)

C22_Witness ==
  /\ Left(m_install)
  /\ argv.args.all
  /\ argv.args.package = PyList(<<t_id1>>)
  /\ Ops = <<"download">>
  /\ calls[1].package_ids = PyList(<<>>)
  /\ calls[1].outcome = "ok"

C24_VerifyNotInteractive ==
  \A i \in 1..Len(calls) :
    (argv.words = <<m_install>> /\ calls[i].op = "install")
      => /\ ~(calls[i].manifest_verify /\ calls[i].manifest_interactive)
         /\ ~Truthy(calls[i].manifest_folder)
              => ~calls[i].manifest_verify /\ ~calls[i].manifest_interactive

\* C25: the build mode test_package installs with is the single pattern
\* "<first requirement>*" when --build is not given, and otherwise what
\* --build resolves to: False for never, True for missing.
C25_TestPackageBuildMode ==
  \A i \in 1..Len(calls) :
    (/\ argv.words = <<m_test_package>>
     /\ ~argv.help
     /\ calls[i].op = "install")
      => /\ argv.args.build = PyNone
              => calls[i].build_mode = PyList(<<s_Hello \o <<"*">> >>)
         /\ argv.args.build # PyNone
              => calls[i].build_mode = expected_build_mode(argv.args.build)
         /\ argv.args.build = PyList(<<s_never>>)
              => calls[i].build_mode = PyBool(FALSE)
         /\ argv.args.build = PyList(<<s_missing>>)
              => calls[i].build_mode = PyBool(TRUE)

C25_Witness ==
  /\ argv.words = <<m_test_package>>
  /\ ~argv.help
  /\ argv.args.build = PyNone
  /\ pc = "build"
  /\ Ops[Len(calls)] = "install"
  /\ calls[Len(calls)].build_mode = PyList(<<s_Hello \o <<"*">> >>)

\* The steps of test_package in the order they are taken.
test_package_steps(a) ==
  IF a.not_export THEN <<"rmdir", "load_conan", "install", "build">>
  ELSE <<"rmdir", "load_conan", "export", "install", "build">>

\* C26: the calls of test_package are a beginning of: remove the build
\* folder, load the test conanfile, export (unless --not-export), install,
\* build; only the last call made can have raised, and once an exception is
\* in flight or run has returned no further call is made.
C26_TestPackageOrder ==
  [][/\ (argv'.words = <<m_test_package>> /\ ~argv'.help)
          => /\ Len(calls') <= Len(test_package_steps(argv'.args))
             /\ \A i \in 1..Len(calls') :
                  /\ calls'[i].op = test_package_steps(argv'.args)[i]
                  /\ i < Len(calls') => calls'[i].outcome = "ok"
     /\ (argv.words = <<m_test_package>>
           /\ pc \in {"except", "done", "propagated"})
          => calls' = calls]_vars

C26_Witness ==
  /\ argv.words = <<m_test_package>>
  /\ ~argv.help
  /\ ~argv.args.not_export
  /\ pc = "done"
  /\ errors = PyBool(FALSE)
  /\ Ops = <<"rmdir", "load_conan", "export", "install", "build">>

\* What remove is said to forward for a value of -p or -b; a value given is
\* split at the commas.
expected_ids(value) ==
  CASE value = PyNone -> PyNone
    [] value = PyList(<<>>) -> PyList(<<>>)
    [] value = PyText(<<>>) -> PyList(<< <<>> >>)
    [] value = PyText(t_id1) -> PyList(<<t_id1>>)
    [] value = PyText(t_ids) -> PyList(<<t_id1, t_id2>>)

\* C27 as stated: remove forwards None for an absent -p, the empty list for
\* -p without a value and the comma-split list for -p with a value; the
\* same for -b.
C27_RemoveForwardsIds ==
  (Left(m_remove) /\ Len(calls) = 1)
    => /\ calls[1].package_ids_filter = expected_ids(argv.args.packages)
       /\ calls[1].build_ids = expected_ids(argv.args.builds)

\* C27 as amended: the comma-split list is forwarded for a non-empty value;
\* an empty value (-p "") is forwarded as it is, the empty str.
C27_RemoveForwardsNonEmptyIds ==
  (Left(m_remove) /\ Len(calls) = 1)
    => /\ Ops = <<"remove">>
       /\ calls[1].package_ids_filter
            = (IF argv.args.packages = PyText(<<>>) THEN PyText(<<>>)
               ELSE expected_ids(argv.args.packages))
       /\ calls[1].build_ids
            = (IF argv.args.builds = PyText(<<>>) THEN PyText(<<>>)
               ELSE expected_ids(argv.args.builds))

C27_Witness ==
  /\ Left(m_remove)
  /\ argv.args.packages = PyText(t_ids)
  /\ argv.args.builds = PyList(<<>>)
  /\ calls[1].package_ids_filter = PyList(<<t_id1, t_id2>>)
  /\ calls[1].build_ids = PyList(<<>>)

\* What upload is said to do: nothing but raise, or one call with the retry
\* values given, 2 and 5 when they are not.
upload_as_claimed(rejected) ==
  IF rejected THEN raised = "ConanException" /\ calls = <<>>
  ELSE /\ Ops = <<"upload">>
       /\ calls[1].retry = (IF argv.args.retry = <<>> THEN 2
                            ELSE argv.args.retry[1])
       /\ calls[1].retry_wait = (IF argv.args.retry_wait = <<>> THEN 5
                                 ELSE argv.args.retry_wait[1])

\* C28 as stated: upload with -p and a pattern that is no complete recipe
\* reference raises ConanException and calls nothing; in every other case
\* manager.upload is called once with the retry values.
C28_UploadPackageNeedsReference ==
  Left(m_upload)
    => upload_as_claimed(/\ argv.args.package # PyNone
                         /\ argv.args.pattern # reference_str)

\* C28 as amended: the same for -p with a non-empty value; an empty value
\* (-p "") is among the other cases.
C28_UploadPackageIdNeedsReference ==
  Left(m_upload)
    => upload_as_claimed(/\ argv.args.package \notin {PyNone, PyText(<<>>)}
                         /\ argv.args.pattern # reference_str)

C28_Witness ==
  /\ Left(m_upload)
  /\ argv.args.package = PyText(t_id1)
  /\ argv.args.pattern = reference_str
  /\ argv.args.retry = <<3>>
  /\ argv.args.retry_wait = <<>>
  /\ calls[1].retry = 3
  /\ calls[1].retry_wait = 5

\* C29: whenever search calls manager.search with a query, its first
\* argument is a parsed reference; with a query and no such pattern search
\* raises ConanException and calls nothing.
C29_QueryNeedsReference ==
  (Left(m_search) /\ argv.args.query # PyNone)
    => IF argv.args.pattern = PyText(reference_str)
       THEN /\ Ops = <<"search">>
            /\ calls[1].reference.type = "ConanFileReference"
       ELSE raised = "ConanException" /\ calls = <<>>

\* C30: Command.run returns False when the method it dispatched to returns
\* and True when it raises ConanException, KeyboardInterrupt or SystemExit
\* (the exit of -h among them); any other exception goes through to the
\* caller; "run" and names that start with "_" are no commands: run raises
\* ConanException for them without calling anything, and returns True.
C30_RunReportsErrors ==
  [][/\ (pc = "idle" /\ argv'.words # <<>>
           /\ (argv'.words[1] = m_run \/ Head(argv'.words[1]) = "_"))
          => pc' = "except" /\ raised' = "ConanException" /\ calls' = <<>>
     /\ (pc = "method" /\ argv.help)
          => pc' = "except" /\ raised' = "SystemExit"
     /\ pc = "returned"
          => raised = None /\ pc' = "done" /\ errors' = PyBool(FALSE)
     /\ (pc = "except"
           /\ raised \in {"ConanException", "KeyboardInterrupt", "SystemExit"})
          => pc' = "done" /\ errors' = PyBool(TRUE)
     /\ (pc = "except" /\ raised = "Exception")
          => pc' = "propagated" /\ raised' = "Exception" /\ errors' = PyNone
     /\ pc \in {"done", "propagated"} => UNCHANGED <<pc, errors, raised>>]_vars

C30_Witness ==
  /\ pc = "done"
  /\ argv.words = <<m_run>>
  /\ ~argv.help
  /\ errors = PyBool(TRUE)
  /\ calls = <<>>

====
